---- MODULE Spec2Model ----
(***************************************************************************)
(* HumanReadableSeed: a codec between a seed token (a string) and a        *)
(* sequence of words of a sorted wordlist.                                 *)
(*                                                                         *)
(* Strings are sequences of code points, a word is a string, a bit string  *)
(* (Python's '0101...') is a sequence over {0, 1}.  Python's 0-based list  *)
(* index i is position i + 1 of a TLA+ sequence.                           *)
(***************************************************************************)
EXTENDS Integers, Sequences, FiniteSets, TLC

(* ----------------------------- bounds ---------------------------------- *)
\* longest token handed to seed_to_human
MaxLen == 3
\* number of pool words a raw wordlist may draw
MaxWords == 33
\* largest chunk_size passed explicitly to the constructor
MaxChunk == 5
\* longest word list handed directly to human_to_seed
MaxIn == 3

(* ------------------------ strings and bit strings ---------------------- *)
IsAscii(c) == c < 128

IsUpper(c) == c >= 65 /\ c <= 90

IsLower(c) == c >= 97 /\ c <= 122

IsCased(c) == IsUpper(c) \/ IsLower(c)

ToUpper(c) == IF IsLower(c) THEN c - 32 ELSE c

ToLower(c) == IF IsUpper(c) THEN c + 32 ELSE c

\* str.title(): a cased character is upper-cased when it follows an uncased
\* character (or starts the string) and lower-cased otherwise
Title(w) ==
    [i \in 1..Len(w) |->
        IF i > 1 /\ IsCased(w[i - 1]) THEN ToLower(w[i]) ELSE ToUpper(w[i])]

\* str.split() separators
IsSpace(c) == c \in {9, 10, 11, 12, 13, 28, 29, 30, 31, 32}

RECURSIVE Join(_)
\* ' '.join(ws)
Join(ws) ==
    IF Len(ws) = 0 THEN <<>>
    ELSE IF Len(ws) = 1 THEN ws[1]
    ELSE ws[1] \o <<32>> \o Join(Tail(ws))

\* the positions of s where a word starts: a non-whitespace character at the
\* start of s or after whitespace
WordStarts(s) ==
    {i \in 1..Len(s) : ~IsSpace(s[i]) /\ (i = 1 \/ IsSpace(s[i - 1]))}

\* the position where the word starting at i ends
WordEnd(s, i) ==
    CHOOSE j \in i..Len(s) :
        /\ \A k \in i..j : ~IsSpace(s[k])
        /\ (j = Len(s) \/ IsSpace(s[j + 1]))

\* s.split(): the maximal runs of non-whitespace characters, in order
Split(s) ==
    LET starts == WordStarts(s)
        nth(k) == CHOOSE i \in starts : Cardinality({j \in starts : j < i}) = k - 1
    IN  [k \in 1..Cardinality(starts) |-> SubSeq(s, nth(k), WordEnd(s, nth(k)))]

\* Python's < on str: lexicographic by code point
StrLess(a, b) ==
    \E k \in 1..(Len(b)) :
        /\ \A j \in 1..(k - 1) : j <= Len(a) /\ a[j] = b[j]
        /\ (k > Len(a) \/ a[k] < b[k])
        /\ k <= Len(a) + 1

RECURSIVE Sorted(_)
\* sorted(S) of a set of strings
Sorted(S) ==
    IF S = {} THEN <<>>
    ELSE LET m == CHOOSE x \in S : \A y \in S : x = y \/ StrLess(x, y)
         IN  <<m>> \o Sorted(S \ {m})

RECURSIVE Pow2(_)
\* 2**n for n >= 0
Pow2(n) == IF n = 0 THEN 1 ELSE 2 * Pow2(n - 1)

RECURSIVE BinDigits(_)
\* the binary digits of n >= 0 without leading zeros ('0' for 0)
BinDigits(n) == IF n < 2 THEN <<n>> ELSE Append(BinDigits(n \div 2), n % 2)

\* format(n, f'0{width}b'): the binary digits, left-padded with zeros to
\* width; a number that needs more digits keeps them all
FormatBin(n, width) ==
    LET d == BinDigits(n)
    IN  IF Len(d) >= width THEN d
        ELSE [i \in 1..(width - Len(d)) |-> 0] \o d

RECURSIVE BitsToInt(_)
\* int(bits, 2) of a non-empty bit string
BitsToInt(bits) ==
    IF Len(bits) = 0 THEN 0
    ELSE 2 * BitsToInt(SubSeq(bits, 1, Len(bits) - 1)) + bits[Len(bits)]

\* s[i:i+n] for 0-based i: clipped at the end of s
Slice(s, i, n) ==
    IF i + n <= Len(s) THEN SubSeq(s, i + 1, i + n) ELSE SubSeq(s, i + 1, Len(s))

\* range(0, n, step) for step > 0
RangeStarts(n, step) == [k \in 1..((n + step - 1) \div step) |-> (k - 1) * step]

RECURSIVE Concat(_)
\* ''.join(seqs)
Concat(seqs) == IF Len(seqs) = 0 THEN <<>> ELSE seqs[1] \o Concat(Tail(seqs))

\* list.index(x): 0-based position of the first occurrence
Index(list, x) == (CHOOSE i \in 1..Len(list) : list[i] = x /\ \A j \in 1..(i - 1) : list[j] # x) - 1

Contains(list, x) == \E i \in 1..Len(list) : list[i] = x

(* --------------------------- construction ------------------------------ *)
\* the wordlist after filtering out non-ASCII words, capitalizing,
\* removing duplicates and sorting
Canonical(raw) ==
    Sorted({Title(w) : w \in {v \in raw : \A i \in 1..Len(v) : IsAscii(v[i])}})

RECURSIVE ChunkLoop(_, _)
\* while 2**chunk_size < wordlist_size: chunk_size += 1
ChunkLoop(chunk_size, wordlist_size) ==
    IF Pow2(chunk_size) < wordlist_size
    THEN ChunkLoop(chunk_size + 1, wordlist_size)
    ELSE chunk_size

RECURSIVE ChunkLoopLeq(_, _)
ChunkLoopLeq(chunk_size, wordlist_size) ==
    IF Pow2(chunk_size) <= wordlist_size
    THEN ChunkLoopLeq(chunk_size + 1, wordlist_size)
    ELSE chunk_size

\* the loop written with <=: the tightest width 2**w <= wordlist_size
compute_chunk_size_tight(wordlist_size) == ChunkLoopLeq(1, wordlist_size) - 1

\* _compute_chunk_size
compute_chunk_size(wordlist_size) == ChunkLoop(1, wordlist_size) - 1

\* not (len(self.wordlist) < 2**self.chunk_size)
minimum_words(size, width) == ~(size < Pow2(width))

(* ------------------------------ encoding ------------------------------- *)
\* position (0-based) of the first character with ord(char) >= 128, or
\* len(token) when there is none
FirstNonAscii(token) ==
    IF \A i \in 1..Len(token) : IsAscii(token[i]) THEN Len(token)
    ELSE (CHOOSE i \in 1..Len(token) :
            ~IsAscii(token[i]) /\ \A j \in 1..(i - 1) : IsAscii(token[j])) - 1

\* bit_list += format(ord(char), '08b') for every char
TokenBits(token) == Concat([i \in 1..Len(token) |-> FormatBin(token[i], 8)])

\* padding without the outer modulo: a full chunk of padding on exact fit
padding_length_no_mod(width, nbits) == width - (nbits % width)

\* (self.chunk_size - (len(bit_list) % self.chunk_size)) % self.chunk_size
padding_length_of(width, nbits) == (width - (nbits % width)) % width

\* [bit_list[i:i+chunk_size] for i in range(0, len(bit_list), chunk_size)]
Chunks(bit_list, width) ==
    LET starts == RangeStarts(Len(bit_list), width)
    IN  [k \in 1..Len(starts) |-> Slice(bit_list, starts[k], width)]

\* the words list without its leading padding word
encode_words_no_marker(wl, padding_length, chunks) ==
    [k \in 1..Len(chunks) |-> wl[BitsToInt(chunks[k]) + 1]]

\* words = [wordlist[padding_length]] + [wordlist[int(chunk, 2)] for chunk in chunks]
encode_words(wl, padding_length, chunks) ==
    <<wl[padding_length + 1]>> \o
    [k \in 1..Len(chunks) |-> wl[BitsToInt(chunks[k]) + 1]]

NoEncoding == [err |-> "none", result |-> <<>>, padding_length |-> 0, nwords |-> 0]

\* seed_to_human up to result = ' '.join(words), i.e. with skip_check=True
encode_body(wl, width, token) ==
    IF FirstNonAscii(token) < Len(token)
    THEN [NoEncoding EXCEPT !.err = "NonAsciiInput"]
    ELSE IF width = 0
    THEN [NoEncoding EXCEPT !.err = "ZeroDivisionError"]
    ELSE
      LET bits == TokenBits(token)
          padding_length == padding_length_of(width, Len(bits))
          bit_list == bits \o [i \in 1..padding_length |-> 0]
          chunks == Chunks(bit_list, width)
      IN  IF \/ padding_length + 1 > Len(wl)
             \/ \E k \in 1..Len(chunks) : BitsToInt(chunks[k]) + 1 > Len(wl)
          THEN [NoEncoding EXCEPT !.err = "IndexError"]
          ELSE LET ws == encode_words(wl, padding_length, chunks)
               IN  [err |-> "ok", result |-> Join(ws),
                    padding_length |-> padding_length, nwords |-> Len(ws)]

(* ------------------------------ decoding ------------------------------- *)
\* the input accepted with a single word
enough_words_one(ws) == Len(ws) >= 1

\* assert len(words) >= 2
enough_words(ws) == Len(ws) >= 2

\* the padding bound of the assertion at decode; wordlists of the sizes
\* explored here have fewer words, so the assertion never fails on them
PaddingLimit == 64

\* all_bits[:-padding_length]: Python's [:-0] is [:0], the empty string
drop_padding(all_bits, padding_length) ==
    IF padding_length = 0 THEN <<>>
    ELSE IF padding_length >= Len(all_bits) THEN <<>>
    ELSE SubSeq(all_bits, 1, Len(all_bits) - padding_length)

\* format(word_index, f'0{chunk_size}b') for each data word
bit_chunks_of(wl, width, data) ==
    [k \in 1..Len(data) |-> FormatBin(Index(wl, data[k]), width)]

\* ''.join(chr(int(all_bits[i:i+8], 2)) for i in range(0, len(all_bits), 8))
BitsToToken(all_bits) ==
    LET starts == RangeStarts(Len(all_bits), 8)
    IN  [k \in 1..Len(starts) |-> BitsToInt(Slice(all_bits, starts[k], 8))]

NoDecoding == [err |-> "none", token |-> <<>>, data |-> <<>>, nbits |-> 0,
               padding_length |-> 0, rest |-> 0]

\* human_to_seed on a word list up to the token, i.e. with skip_check=True
decode_body(wl, width, ws) ==
    IF ~enough_words(ws) THEN [NoDecoding EXCEPT !.err = "TooFewWords"]
    ELSE
      LET titled == [k \in 1..Len(ws) |-> Title(ws[k])]
      IN  IF \E k \in 1..Len(titled) : ~Contains(wl, titled[k])
          THEN [NoDecoding EXCEPT !.err = "UnknownWord"]
          ELSE
            LET padding_length == Index(wl, titled[1])
                data == Tail(titled)
                all_bits == Concat(bit_chunks_of(wl, width, data))
                kept == drop_padding(all_bits, padding_length)
            IN  IF ~(padding_length < PaddingLimit)
                THEN [NoDecoding EXCEPT !.err = "PaddingLengthOutOfRange"]
                ELSE [err |-> "ok", token |-> BitsToToken(kept), data |-> data,
                      nbits |-> Len(all_bits), padding_length |-> padding_length,
                      rest |-> Len(kept)]

\* the round-trip assertion of seed_to_human left out
roundtrip_unchecked(reconstructed, token) == TRUE

\* assert reconstructed == token
roundtrip_equal(reconstructed, token) == reconstructed = token

\* seed_to_human(token, skip_check)
seed_to_human(wl, width, token, skip) ==
    LET enc == encode_body(wl, width, token)
    IN  IF enc.err # "ok" \/ skip THEN enc
        ELSE LET dec == decode_body(wl, width, Split(enc.result))
             IN  IF dec.err # "ok" THEN [NoEncoding EXCEPT !.err = dec.err]
                 ELSE IF ~roundtrip_equal(dec.token, token)
                 THEN [NoEncoding EXCEPT !.err = "RoundtripFailure"]
                 ELSE enc

\* human_to_seed(words, skip_check) for words given as a list
human_to_seed(wl, width, ws, skip) ==
    LET dec == decode_body(wl, width, ws)
    IN  IF dec.err # "ok" \/ skip THEN dec
        ELSE LET enc == encode_body(wl, width, dec.token)
             IN  IF enc.err # "ok" THEN [NoDecoding EXCEPT !.err = enc.err]
                 ELSE IF Join(Tail(Split(enc.result))) # Join(dec.data)
                 THEN [NoDecoding EXCEPT !.err = "RoundtripFailure"]
                 ELSE dec

(* ------------------------------ inputs --------------------------------- *)
\* a pool of distinct raw words, in no particular order and of mixed case:
\* "ho", "oO", "vo", "cO", "jo", ..., then "hP", "op", ...
PoolWord(i) ==
    <<97 + ((i * 7) % 26), (IF i % 2 = 0 THEN 79 ELSE 111) + ((i - 1) \div 26)>>

\* "\xe9o": dropped by the ASCII filter
NonAsciiWord == <<233, 111>>

\* "HO": the same word as PoolWord(1) once capitalized
CaseVariant == <<72, 79>>

\* "": makes the constructor raise
EmptyWord == <<>>

\* "zz": never in a wordlist
UnknownWord == <<122, 122>>

RawWordlists ==
    {{PoolWord(i) : i \in 1..n} \cup junk :
        n \in 0..MaxWords, junk \in SUBSET {NonAsciiWord, CaseVariant, EmptyWord}}

\* 'A', DEL and a non-ASCII character
TokenChars == {65, 127, 233}

Tokens == UNION {[1..n -> TokenChars] : n \in 0..MaxLen}

IsAsciiToken(token) == \A i \in 1..Len(token) : IsAscii(token[i])

Lower(w) == [i \in 1..Len(w) |-> ToLower(w[i])]

\* words a caller may hand to human_to_seed: the first entries and the last
\* entry of the wordlist, some in lower case, and a word that is not in it
DecodeWords(wl) ==
    {wl[i] : i \in {1} \cap (1..Len(wl))}
    \cup {Lower(wl[i]) : i \in {2, 3, Len(wl)} \cap (1..Len(wl))}
    \cup {UnknownWord}

WordLists(wl) == UNION {[1..n -> DecodeWords(wl)] : n \in 0..MaxIn}

(* ------------------------------- state --------------------------------- *)
VARIABLES
    pc,           \* "new", "constructed", "rejected", "encoded", "roundtrip", "decoded"
    wordlist,     \* self.wordlist
    chunk_size,   \* self.chunk_size
    derived,      \* TRUE when the constructor was given chunk_size=None
    ctor_err,     \* the constructor's outcome
    seed,         \* the token last handed to seed_to_human
    skip_check,   \* the skip_check argument of the last call
    enc,          \* the outcome of the last seed_to_human call
    words,        \* the word list last handed to human_to_seed (after split)
    dec           \* the outcome of the last human_to_seed call

vars == <<pc, wordlist, chunk_size, derived, ctor_err, seed, skip_check, enc, words, dec>>

Init ==
    /\ pc = "new"
    /\ wordlist = <<>>
    /\ chunk_size = 0
    /\ derived = FALSE
    /\ ctor_err = "none"
    /\ seed = <<>>
    /\ skip_check = FALSE
    /\ enc = NoEncoding
    /\ words = <<>>
    /\ dec = NoDecoding

HasCodec == pc \in {"constructed", "encoded", "roundtrip", "decoded"}

\* HumanReadableSeed(chunk_size, wordlist): given = FALSE is chunk_size=None.
\* Explicit widths range over 0..MaxChunk; the constructor's size check also
\* lets a negative chunk_size through for a non-empty wordlist (2**-k < 1),
\* which is left out here.
Construct ==
    /\ pc = "new"
    /\ \E raw \in RawWordlists, given \in BOOLEAN, arg \in 0..MaxChunk :
         LET wl == Canonical(raw)
             cs == IF given THEN arg ELSE compute_chunk_size(Len(wl))
         IN  /\ wordlist' = wl
             /\ derived' = ~given
             /\ IF Contains(wl, EmptyWord)
                THEN /\ ctor_err' = "InvalidWordlist"
                     /\ pc' = "rejected"
                     /\ UNCHANGED chunk_size
                ELSE /\ chunk_size' = cs
                     /\ IF minimum_words(Len(wl), cs)
                        THEN ctor_err' = "ok" /\ pc' = "constructed"
                        ELSE ctor_err' = "InsufficientWordlist" /\ pc' = "rejected"
    /\ UNCHANGED <<seed, skip_check, enc, words, dec>>

\* hrs.seed_to_human(token, skip_check)
SeedToHuman ==
    /\ pc = "constructed"
    /\ \E token \in Tokens, skip \in BOOLEAN :
         /\ seed' = token
         /\ skip_check' = skip
         /\ enc' = seed_to_human(wordlist, chunk_size, token, skip)
    /\ words' = <<>>
    /\ dec' = NoDecoding
    /\ pc' = "encoded"
    /\ UNCHANGED <<wordlist, chunk_size, derived, ctor_err>>

\* hrs.human_to_seed(human_readable, skip_check) on the string the last
\* seed_to_human call returned (steps 1 and 2 of test_human_readable_seed)
HumanToSeedStr ==
    /\ pc = "encoded"
    /\ enc.err = "ok"
    /\ \E skip \in BOOLEAN :
         /\ skip_check' = skip
         /\ dec' = human_to_seed(wordlist, chunk_size, Split(enc.result), skip)
    /\ words' = Split(enc.result)
    /\ pc' = "roundtrip"
    /\ UNCHANGED <<wordlist, chunk_size, derived, ctor_err, seed, enc>>

\* hrs.human_to_seed(words, skip_check) on a list of words
HumanToSeedList ==
    /\ pc = "constructed"
    /\ \E ws \in WordLists(wordlist), skip \in BOOLEAN :
         /\ skip_check' = skip
         /\ words' = ws
         /\ dec' = human_to_seed(wordlist, chunk_size, ws, skip)
    /\ seed' = <<>>
    /\ enc' = NoEncoding
    /\ pc' = "decoded"
    /\ UNCHANGED <<wordlist, chunk_size, derived, ctor_err>>

\* the call's results go out of scope and the caller's loop goes on to its
\* next call on the same codec
NextCall ==
    /\ pc \in {"encoded", "roundtrip", "decoded"}
    /\ pc' = "constructed"
    /\ seed' = <<>>
    /\ skip_check' = FALSE
    /\ enc' = NoEncoding
    /\ words' = <<>>
    /\ dec' = NoDecoding
    /\ UNCHANGED <<wordlist, chunk_size, derived, ctor_err>>

Next ==
    \/ Construct
    \/ SeedToHuman
    \/ HumanToSeedStr
    \/ HumanToSeedList
    \/ NextCall

Spec == Init /\ [][Next]_vars

(* ----------------------------- properties ------------------------------ *)
CeilDiv(a, b) == (a + b - 1) \div b

\* a call of seed_to_human on an ASCII token has returned or raised
Encoded == pc \in {"encoded", "roundtrip"} /\ IsAsciiToken(seed)

\* a call of human_to_seed has returned or raised
Decoded == pc \in {"roundtrip", "decoded"}

\* the 0-based wordlist positions of the data words handed to human_to_seed
DataIndexes == {Index(wordlist, Title(words[k])) : k \in 2..Len(words)}

\* C1 (round-trip law): on a codec of positive width, seed_to_human of a
\* non-empty ASCII token returns, and human_to_seed of what it returned
\* yields the token again, whatever the token's length (also when 8*len is a
\* multiple of chunk_size and the padding length is 0).
C1_RoundTrip ==
    /\ (Encoded /\ Len(seed) >= 1 /\ chunk_size >= 1) => enc.err = "ok"
    /\ (pc = "roundtrip" /\ IsAsciiToken(seed) /\ Len(seed) >= 1 /\ chunk_size >= 1)
          => (dec.err = "ok" /\ dec.token = seed)

\* C2 (empty input): on a codec of positive width, encoding the empty token
\* returns just the padding-marker word wordlist[0] with padding length 0, and
\* decoding that output returns the empty token.
C2_EmptyToken ==
    /\ (pc \in {"encoded", "roundtrip"} /\ seed = <<>> /\ chunk_size >= 1)
          => /\ enc.err = "ok"
             /\ enc.padding_length = 0
             /\ Split(enc.result) = <<wordlist[1]>>
    /\ (pc = "roundtrip" /\ seed = <<>> /\ chunk_size >= 1)
          => (dec.err = "ok" /\ dec.token = <<>>)

\* C3 (self-check): whenever seed_to_human, called with skip_check=False on
\* an ASCII token, returns a string, human_to_seed(that string,
\* skip_check=True) returns the token; otherwise the call has raised.
C3_SelfCheck ==
    (pc = "encoded" /\ IsAsciiToken(seed) /\ ~skip_check /\ enc.err = "ok")
        => LET back == human_to_seed(wordlist, chunk_size, Split(enc.result), TRUE)
           IN  back.err = "ok" /\ back.token = seed

\* C3 witness: a checked call on a non-empty token returned its words.
C3_Witness ==
    /\ pc = "encoded" /\ ~skip_check /\ enc.err = "ok"
    /\ Len(seed) = 2 /\ IsAsciiToken(seed)
    /\ human_to_seed(wordlist, chunk_size, Split(enc.result), TRUE).token = seed

\* C4 (word count): the string seed_to_human returns for an ASCII token b
\* splits into exactly 1 + ceil(8*len(b) / chunk_size) words.
C4_WordCount ==
    (Encoded /\ enc.err = "ok")
        => Len(Split(enc.result)) = 1 + CeilDiv(8 * Len(seed), chunk_size)

\* C4 witness: a returned encoding whose last chunk is partly padding, so the
\* ceiling rounds up: 2 characters at width 3 make 1 + 6 words.
C4_Witness ==
    /\ Encoded /\ enc.err = "ok"
    /\ (8 * Len(seed)) % chunk_size # 0
    /\ Len(seed) = 2 /\ chunk_size = 3
    /\ Len(Split(enc.result)) = 7

\* the constructor computed a width from the size of the wordlist
WidthDerived == pc # "new" /\ derived /\ ctor_err # "InvalidWordlist"

C6_ConstructionInvariant ==
    HasCodec => (chunk_size >= 1 /\ Len(wordlist) >= Pow2(chunk_size))

\* C7 (padding bound): the first word of the string seed_to_human returns
\* has the 0-based wordlist position
\* (chunk_size - (8*len(token) mod chunk_size)) mod chunk_size, that position
\* is in [0, chunk_size), and the data words carry 8*len(token) plus that
\* many bits, a multiple of chunk_size.
C7_PaddingBound ==
    (Encoded /\ enc.err = "ok")
        => LET ws == Split(enc.result)
               p == Index(wordlist, ws[1])
           IN  /\ p = (chunk_size - ((8 * Len(seed)) % chunk_size)) % chunk_size
               /\ p >= 0 /\ p < chunk_size
               /\ (Len(ws) - 1) * chunk_size = 8 * Len(seed) + p
               /\ (8 * Len(seed) + p) % chunk_size = 0

\* C7 witness: an encoding with two bits of padding.
C7_Witness ==
    /\ Encoded /\ enc.err = "ok"
    /\ Index(wordlist, Split(enc.result)[1]) = 2
    /\ chunk_size = 3

\* the input of human_to_seed has fewer than 2 words
TooFew == Len(words) < 2

\* some input word is, once capitalized, not in the wordlist
HasUnknown == \E k \in 1..Len(words) : ~Contains(wordlist, Title(words[k]))

\* C8 (malformed input): human_to_seed raises and returns no token when its
\* input has fewer than 2 words (TooFewWords) or holds a word that is not in
\* the wordlist after capitalization (UnknownWord), with or without
\* skip_check.
C8_Rejection ==
    (Decoded /\ (TooFew \/ HasUnknown))
        => /\ dec.err = (IF TooFew THEN "TooFewWords" ELSE "UnknownWord")
           /\ dec.token = <<>>

\* C8 witness: a single word of the wordlist was handed in with
\* skip_check=True and rejected.
C8_Witness ==
    /\ pc = "decoded" /\ skip_check /\ chunk_size >= 1
    /\ Len(words) = 1 /\ ~HasUnknown
    /\ dec.err = "TooFewWords"

\* C9 (MalformedBitstream): on a codec of positive width, with every data
\* word below 2^chunk_size, human_to_seed returns a token only when the bits
\* left after dropping the padding are a multiple of 8.
C9_WholeBytes ==
    (Decoded /\ dec.err = "ok" /\ chunk_size >= 1
             /\ \A i \in DataIndexes : i < Pow2(chunk_size))
        => dec.rest % 8 = 0

\* C10 (fixed-width chunks): on a codec of positive width, for every input
\* human_to_seed accepts past validation the joined bit string has exactly
\* chunk_size bits per data word.
C10_FixedWidth ==
    (Decoded /\ dec.err = "ok" /\ chunk_size >= 1)
        => dec.nbits = chunk_size * (Len(words) - 1)

====
